---------------------------- MODULE Spec2Model ----------------------------
(***************************************************************************)
(* A model of src/market/MarketLayer.js: the buy-attempt loop              *)
(* (buyCheapest / _tryToBuy), the classification of the provider's raw     *)
(* messages (EMarketMessage), the offer catalogue (getItemOffers, buyItem) *)
(* and the search of the history (getBoughtItems / getItemState).          *)
(*                                                                         *)
(* JavaScript values are modelled as follows.                              *)
(*   - null / undefined: the empty sequence None; a present value v is     *)
(*     Some(v) where a field may be absent.                                *)
(*   - the Russian string literals of EMarketMessage are written as ASCII  *)
(*     stand-ins (the module's strings are ASCII only); two entries have   *)
(*     the same stand-in exactly when they have the same literal in the    *)
(*     source (RequestErrorItemListFail and RequestErrorNoList).           *)
(*   - a promise chain is modelled by the stack of its pending handlers    *)
(*     (frames); the state changes at the await points only.               *)
(***************************************************************************)
EXTENDS Integers, Sequences, FiniteSets, TLC

\* ------------------------------------------------------------------ bounds
\* prices and balances are drawn from 1..MaxPrice and 0..MaxPrice
MaxPrice == 3
\* the longest offer queue handed to buyCheapest
MaxQueue == 3
\* the longest raw offer list the remote lookup returns
MaxRaw == 2
\* the most events the history of the account holds
MaxEvents == 2

\* ------------------------------------------------------------- JS values
None == <<>>
Some(v) == <<v>>
IsSome(o) == o # None
Get(o) == o[1]

\* Number.MAX_VALUE: larger than every price of the model
Number_MAX_VALUE == 2147483647

Max(a, b) == IF a >= b THEN a ELSE b

\* --------------------------------------------------------- EMarketMessage
\* The enumerable string properties of the frozen object, in declaration
\* order (the order for..in visits them). The property "hash" is a function:
\* it never equals a message and is left out.
EMarketMessage ==
    << [name |-> "Ok", value |-> "ok"],
       [name |-> "TooEarlyToPong", value |-> "too early for pong"],
       [name |-> "CheckTokenOrMobile", value |-> "token_check_or_mobile_authenticator"],
       [name |-> "RequestErrorNoItems", value |-> "RU request creation error: you have no items to transfer"],
       [name |-> "RequestErrorWrongBotId", value |-> "RU request creation error: wrong bot number"],
       [name |-> "RequestErrorItemListFail", value |-> "RU request creation error: failed to get the item list"],
       [name |-> "RequestUnexpectedError", value |-> "RU request creation error: Exception"],
       [name |-> "NeedMoney", value |-> "RU not enough money on the account"],
       [name |-> "NeedToTake", value |-> "RU you cannot buy while you have items available for withdrawal"],
       [name |-> "BadOfferPrice", value |-> "RU buying this item at this price is impossible"],
       [name |-> "RequestErrorNoList", value |-> "RU request creation error: failed to get the item list"],
       [name |-> "BuyOfferExpired", value |-> "RU the offer is outdated, refresh the page"],
       [name |-> "SomebodyBuying", value |-> "RU somebody is already buying this item"],
       [name |-> "ServerError7", value |-> "RU server error 7"],
       [name |-> "SteamOrBotProblems", value |-> "RU possible problems with steam or the bot"],
       [name |-> "BotIsBanned", value |-> "RU the bot is banned"],
       [name |-> "VacGameBan", value |-> "Error: reason VACBan or Game ban."],
       [name |-> "InvalidTradeLink", value |-> "Invalid trade link"],
       [name |-> "SteamInventoryPrivate", value |-> "First you must open your inventory in your Steam profile settings."],
       [name |-> "OfflineTradeProblem", value |-> "Error verifying link. Our bot cannot take or transfer your items. Please check the function of offline trades on your account."],
       [name |-> "BadTokenInvClosed", value |-> "bad_token_inv_closed"],
       [name |-> "CanceledTrades", value |-> "RU transfer to this user is impossible: too many trades not accepted"],
       [name |-> "BuyCanceledTrades", value |-> "RU you cannot buy: you declined too many trade offers"],
       [name |-> "ItemReadyToTake", value |-> "RU the bought item is ready, take it on the My items page"],
       [name |-> "SupportAnswer", value |-> "RU new answer from support"] >>

\* the names and the values of the declared properties
EMarketMessageNames == {EMarketMessage[i].name : i \in 1..Len(EMarketMessage)}
EMarketMessageValues == {EMarketMessage[i].value : i \in 1..Len(EMarketMessage)}

\* name |-> value, and value |-> the first name declared with that value
ValueOfName ==
    [n \in EMarketMessageNames |->
        EMarketMessage[CHOOSE i \in 1..Len(EMarketMessage) : EMarketMessage[i].name = n].value]
FirstNameOfValue ==
    [m \in EMarketMessageValues |->
        LET hits == {i \in 1..Len(EMarketMessage) : EMarketMessage[i].value = m}
        IN  EMarketMessage[CHOOSE i \in hits : \A j \in hits : i <= j].name]

\* EMarketMessage[key]: the value of the property named key, undefined when
\* there is none (the key null, or a name the object does not declare)
EMarketMessageAt(key) ==
    IF key # None /\ Get(key) \in EMarketMessageNames THEN Some(ValueOfName[Get(key)]) ELSE None

\* EMarketMessage.<name>
EM(name) == EMarketMessageAt(Some(name))

\* mutant of hash: the message is compared with the names, not the values
hashByName(message) ==
    IF message \in EMarketMessageNames THEN Some(message) ELSE None

\* EMarketMessage.hash(message): the name of the first property whose value
\* is the message, or null
hash(message) ==
    IF message \in EMarketMessageValues THEN Some(FirstNameOfValue[message]) ELSE None

\* the raw messages the provider may send: every declared message, and one
\* that is not in the vocabulary
UnknownMessage == "some message outside the vocabulary"
RawMessages == EMarketMessageValues \cup {UnknownMessage}

\* ----------------------------------------------------------------- errors
\* MiddlewareError(message, type, source, context): a domain error; the
\* context is a set of <<key, value>> pairs
MiddlewareError(type, source, context) ==
    [class |-> "MiddlewareError", type |-> type, source |-> source,
     context |-> context, statusCode |-> None, instance |-> None, marketId |-> None]

\* a plain JavaScript error of the given class (Error, TypeError)
JsError(class) ==
    [class |-> class, type |-> "none", source |-> "none",
     context |-> {}, statusCode |-> None, instance |-> None, marketId |-> None]

\* the kinds of the DomainError taxonomy (EErrorType) with their sources
Taxonomy ==
    { <<"AttemptsFailed", "Market">>, <<"NeedMoney", "Owner">>, <<"BadOfferPrice", "Market">>,
      <<"NeedToTake", "Owner">>, <<"InvalidToken", "User">>, <<"InventoryClosed", "User">>,
      <<"UnableOfflineTrade", "User">>, <<"VacGameBan", "User">>, <<"BotCanceledTrades", "User">>,
      <<"CanceledTrades", "User">>, <<"RequestFailed", "Market">>, <<"NotFound", "Market">>,
      <<"TooHighPrices", "Owner">>, <<"HistoryFailed", "Market">>, <<"UnknownStage", "Market">> }

\* ------------------------------------------------------------- _tryToBuy
\* what a handler does: it returns a value or throws an error; log is the
\* level of the message it logged
Return(value, log) == [kind |-> "value", value |-> value, log |-> log, err |-> JsError("none")]
Throw(err) == [kind |-> "error", value |-> None, log |-> "none", err |-> err]
ThrowLogged(err, log) == [kind |-> "error", value |-> None, log |-> log, err |-> err]

\* mutant of the default case: an unhandled message is fatal
DefaultCaseThrows == Throw(MiddlewareError("RequestFailed", "Market", {}))

\* the default case of the switch: a debug log, and null
DefaultCase == Return(None, "debug")

\* the switch over the message in the catch handler of _tryToBuy
SwitchMessage(message, uprice) ==
    IF message = EM("BadOfferPrice")
      THEN ThrowLogged(MiddlewareError("BadOfferPrice", "Market", {}), "trace")
    ELSE IF message \in { EM("BuyOfferExpired"), EM("SomebodyBuying"),
                          EM("RequestErrorNoList"), EM("FailedToFindItem"),
                          EM("SteamOrBotProblems"), EM("BotIsBanned"),
                          EM("ServerError7") }
      THEN Return(None, "trace")
    ELSE IF message = EM("NeedToTake")
      THEN Throw(MiddlewareError("NeedToTake", "Owner", {}))
    ELSE IF message = EM("NeedMoney")
      THEN Throw(MiddlewareError("NeedMoney", "Owner", {<<"needMoney", uprice>>}))
    ELSE IF message = EM("InvalidTradeLink")
      THEN Throw(MiddlewareError("InvalidToken", "User", {}))
    ELSE IF message = EM("SteamInventoryPrivate")
      THEN Throw(MiddlewareError("InventoryClosed", "User", {}))
    ELSE IF message = EM("OfflineTradeProblem")
      THEN Throw(MiddlewareError("UnableOfflineTrade", "User", {}))
    ELSE IF message = EM("VacGameBan")
      THEN Throw(MiddlewareError("VacGameBan", "User", {}))
    ELSE IF message = EM("BuyCanceledTrades")
      THEN Throw(MiddlewareError("BotCanceledTrades", "User", {}))
    ELSE IF message = EM("CanceledTrades")
      THEN Throw(MiddlewareError("CanceledTrades", "User", {}))
    ELSE DefaultCase

\* what the purchase collaborator (api.buyV2CreateFor) may answer: a response
\* with success true, a response with success false and no error message, or
\* a raw error whose response body carries a message
Outcomes ==
    { [tag |-> "response", success |-> TRUE, message |-> "none"],
      [tag |-> "response", success |-> FALSE, message |-> "none"] }
    \cup { [tag |-> "error", success |-> FALSE, message |-> m] : m \in RawMessages }

\* _getBuyDiscount(): its first statement returns 0
_getBuyDiscount == 0

\* _applyDiscount(price): Math.round(price * (1 - _buyDiscount)); the ratio is
\* kept in percent, and null counts as 0 in the subtraction
_applyDiscount(price, cfg, buyDiscount) ==
    IF ~cfg.applyDiscounts THEN price
    ELSE LET pct == IF buyDiscount = None THEN 0 ELSE Get(buyDiscount)
         IN  (2 * price * (100 - pct) + 100) \div 200

\* mutant of _getAccountBalance: an unset wallet counts as an empty one
GetAccountBalanceZero(wallet) ==
    IF wallet = None THEN 0 ELSE Get(wallet)

\* _getAccountBalance()
_getAccountBalance(wallet) ==
    IF wallet = None THEN Number_MAX_VALUE ELSE Get(wallet)

\* the then handler of _tryToBuy: the response of the purchase call
TryToBuyThen(instance, uprice, response, cfg, buyDiscount) ==
    IF ~response.success THEN Throw(JsError("Error"))
    ELSE Return(Some([uiId |-> "id",
                      classId |-> instance.classId,
                      instanceId |-> instance.instanceId,
                      price |-> _applyDiscount(IF instance.min_price # None /\ Get(instance.min_price) # 0
                                                 THEN Get(instance.min_price) ELSE uprice,
                                               cfg, buyDiscount),
                      offerPrice |-> instance.min_price]), "none")

\* the catch handler of _tryToBuy: error.response.body.error is read first,
\* which throws a TypeError for an error that carries no response
TryToBuyCatch(error, uprice) ==
    IF ~error.hasResponse THEN Throw(JsError("TypeError"))
    ELSE SwitchMessage(EMarketMessageAt(hash(error.message)), uprice)

\* _tryToBuy(instance, tradeData): how its promise settles for an outcome of
\* the purchase call. The catch handler also receives what the then handler
\* throws.
_tryToBuy(instance, outcome, cfg, buyDiscount) ==
    LET uprice == instance.price
    IN  IF outcome.tag = "response"
          THEN LET t == TryToBuyThen(instance, uprice, outcome, cfg, buyDiscount)
               IN  IF t.kind = "error"
                     THEN TryToBuyCatch([hasResponse |-> FALSE, message |-> "none"], uprice)
                     ELSE t
          ELSE TryToBuyCatch([hasResponse |-> TRUE, message |-> outcome.message], uprice)

\* ----------------------------------------------------------- buyCheapest
\* The state of one run: the queue, the flag badItemPrice of the closure and
\* the pending handlers of the promise chain, innermost last. A frame is one
\* call of buyAttempt that issued a purchase call; its stage says which of
\* its handlers the promise below it settles into:
\*   "request"  _tryToBuy's promise is pending (then, catch follow)
\*   "then"     buyAttempt was called again from the then handler (its catch
\*              handler still follows)
\*   "catch"    buyAttempt was called again from the catch handler
\* popped and calls record the candidates shifted off the queue and the
\* purchase calls issued.

\* mutants of the adjustment: the next price itself is bid; the candidate's
\* own price is not kept as the floor
AdjustPriceNoMinusOne(instance, rest, cfg) ==
    IF cfg.hackExpiredOffers /\ Len(rest) > 0
      THEN [instance EXCEPT !.min_price = Some(instance.price),
                            !.price = Max(instance.price, rest[1].price)]
      ELSE instance
AdjustPriceNoMax(instance, rest, cfg) ==
    IF cfg.hackExpiredOffers /\ Len(rest) > 0
      THEN [instance EXCEPT !.min_price = Some(instance.price),
                            !.price = rest[1].price - 1]
      ELSE instance

\* the price-floor adjustment of lines 93-98
AdjustPrice(instance, rest, cfg) ==
    IF cfg.hackExpiredOffers /\ Len(rest) > 0
      THEN [instance EXCEPT !.min_price = Some(instance.price),
                            !.price = Max(instance.price, rest[1].price - 1)]
      ELSE instance

\* the balance check of line 100
CannotAfford(instance, balance) == instance.price > balance

\* mutant of the error of line 86: another type is thrown
AttemptsFailedAsNotFound == MiddlewareError("NotFound", "Market", {})

\* the error of line 86
AttemptsFailedError == MiddlewareError("AttemptsFailed", "Market", {})

\* buyAttempt reading the head of the queue without removing it
BuyAttemptSyncKeepsQueue(r, cfg, wallet) ==
    IF Len(r.offers) = 0
      THEN [tag |-> "throw", err |-> AttemptsFailedError, r |-> r]
      ELSE LET listed == Head(r.offers)
               instance == AdjustPrice(listed, Tail(r.offers), cfg)
               r1 == [r EXCEPT !.popped = Append(r.popped, listed)]
           IN  IF CannotAfford(instance, _getAccountBalance(wallet))
                 THEN [tag |-> "throw",
                       err |-> MiddlewareError("NeedMoney", "Owner", {<<"needMoney", instance.price>>}),
                       r |-> r1]
                 ELSE [tag |-> "call",
                       err |-> JsError("none"),
                       r |-> [r1 EXCEPT !.frames = Append(r.frames, [instance |-> instance, stage |-> "request"]),
                                        !.calls = Append(r.calls, [classId |-> listed.classId,
                                                                   listed |-> listed.price,
                                                                   uprice |-> instance.price])]]

\* buyAttempt taking the candidate from the end of the queue
BuyAttemptSyncFromEnd(r, cfg, wallet) ==
    IF Len(r.offers) = 0
      THEN [tag |-> "throw", err |-> AttemptsFailedError, r |-> r]
      ELSE LET listed == r.offers[Len(r.offers)]
               rest == SubSeq(r.offers, 1, Len(r.offers) - 1)
               instance == AdjustPrice(listed, rest, cfg)
               r1 == [r EXCEPT !.offers = rest, !.popped = Append(r.popped, listed)]
           IN  IF CannotAfford(instance, _getAccountBalance(wallet))
                 THEN [tag |-> "throw",
                       err |-> MiddlewareError("NeedMoney", "Owner", {<<"needMoney", instance.price>>}),
                       r |-> r1]
                 ELSE [tag |-> "call",
                       err |-> JsError("none"),
                       r |-> [r1 EXCEPT !.frames = Append(r.frames, [instance |-> instance, stage |-> "request"]),
                                        !.calls = Append(r.calls, [classId |-> listed.classId,
                                                                   listed |-> listed.price,
                                                                   uprice |-> instance.price])]]

\* the synchronous part of buyAttempt, up to the purchase call
BuyAttemptSync(r, cfg, wallet) ==
    IF Len(r.offers) = 0
      THEN [tag |-> "throw", err |-> AttemptsFailedError, r |-> r]
      ELSE LET balance == _getAccountBalance(wallet)
               listed == Head(r.offers)
               rest == Tail(r.offers)
               instance == AdjustPrice(listed, rest, cfg)
               r1 == [r EXCEPT !.offers = rest, !.popped = Append(r.popped, listed)]
           IN  IF CannotAfford(instance, balance)
                 THEN [tag |-> "throw",
                       err |-> MiddlewareError("NeedMoney", "Owner", {<<"needMoney", instance.price>>}),
                       r |-> r1]
                 ELSE [tag |-> "call",
                       err |-> JsError("none"),
                       r |-> [r1 EXCEPT !.frames = Append(r.frames, [instance |-> instance, stage |-> "request"]),
                                        !.calls = Append(r.calls, [classId |-> listed.classId,
                                                                   listed |-> listed.price,
                                                                   uprice |-> instance.price])]]

\* mutants of the test of line 114: the flag is not consulted; the type of
\* the error is not consulted
AbsorbsIgnoringFlag(err, badItemPrice) ==
    err.class = "MiddlewareError" /\ err.type = "BadOfferPrice"
AbsorbsAnyType(err, badItemPrice) ==
    err.class = "MiddlewareError" /\ ~badItemPrice

\* the test of line 114
Absorbs(err, badItemPrice) ==
    err.class = "MiddlewareError" /\ err.type = "BadOfferPrice" /\ ~badItemPrice

\* lines 119-123: the catch handler rethrows
Rethrown(err, instance) ==
    IF err.statusCode # None THEN [err EXCEPT !.instance = Some(instance)] ELSE err

NoSettle == [kind |-> "none", value |-> None, log |-> "none", err |-> JsError("none")]

SetStage(r, stage) == [r EXCEPT !.frames[Len(r.frames)].stage = stage]
PopFrame(r) == [r EXCEPT !.frames = SubSeq(r.frames, 1, Len(r.frames) - 1)]

RECURSIVE Enter(_, _, _), Deliver(_, _, _, _)

\* buyAttempt() is called: from buyCheapest (no frame) or from a handler of
\* the innermost frame. It issues a purchase call, or it throws inside that
\* handler.
Enter(r, cfg, wallet) ==
    LET a == BuyAttemptSync(r, cfg, wallet)
    IN  IF a.tag = "call"
          THEN [pc |-> "request", r |-> a.r, result |-> NoSettle]
          ELSE Deliver(a.r, Throw(a.err), cfg, wallet)

\* a promise settles (st) into the handlers of the innermost frame
Deliver(r, st, cfg, wallet) ==
    IF r.frames = <<>>
      THEN [pc |-> "done", r |-> r, result |-> st]
      ELSE LET top == r.frames[Len(r.frames)]
           IN  IF st.kind = "value"
                 THEN IF top.stage = "request" /\ st.value = None
                        \* line 105: data === null
                        THEN Enter(SetStage(r, "then"), cfg, wallet)
                        ELSE Deliver(PopFrame(r), st, cfg, wallet)
                 ELSE IF top.stage = "catch"
                        THEN Deliver(PopFrame(r), st, cfg, wallet)
                        ELSE IF Absorbs(st.err, r.badItemPrice)
                               THEN Enter([SetStage(r, "catch") EXCEPT !.badItemPrice = TRUE], cfg, wallet)
                               ELSE Deliver(PopFrame(r), Throw(Rethrown(st.err, top.instance)), cfg, wallet)

\* ---------------------------------------------------------- getItemOffers
\* config.preparePrice(maxPrice): the normalisation of the price ceiling that
\* the configuration supplies; prices are integers in minor units already
preparePrice(maxPrice) == maxPrice

\* line 214: maxPrice ? preparePrice(maxPrice) : Number.MAX_VALUE; undefined
\* and 0 are falsy
allowedPrice(maxPrice) ==
    IF maxPrice # None /\ Get(maxPrice) # 0 THEN preparePrice(Get(maxPrice)) ELSE Number_MAX_VALUE

\* Number(item.offers || item.count): NaN (None) when neither is a number
NumberOfOffers(item) ==
    IF item.offers # None /\ Get(item.offers) # 0 THEN item.offers ELSE item.count

\* an offer as extractOffers builds it: no min_price yet
Offer(hashName, classId, price, count) ==
    [hashName |-> hashName, classId |-> classId, instanceId |-> "0",
     price |-> price, offers |-> count, min_price |-> None]

extractOffers(items) ==
    [i \in DOMAIN items |->
        Offer(items[i].market_hash_name, items[i].classid, items[i].price, NumberOfOffers(items[i]))]

\* the first filter of prepareOffers; a comparison with NaN is false
CheapAndListed(item, allowed) ==
    item.price <= allowed /\ item.offers # None /\ Get(item.offers) > 0

\* the second filter of prepareOffers
RightItem(item, mhn) == item.hashName = mhn

\* the list left in the order of the response
InsertAtEnd(sorted, item) == Append(sorted, item)

RECURSIVE InsertByPrice(_, _)
InsertByPrice(sorted, item) ==
    IF sorted = <<>> THEN << item >>
    ELSE IF Head(sorted).price - item.price <= 0
           THEN << Head(sorted) >> \o InsertByPrice(Tail(sorted), item)
           ELSE << item >> \o sorted

\* items.sort((a, b) => a.price - b.price): a stable sort
RECURSIVE SortByPrice(_)
SortByPrice(items) ==
    IF items = <<>> THEN <<>>
    ELSE InsertByPrice(SortByPrice(SubSeq(items, 1, Len(items) - 1)), items[Len(items)])

prepareOffers(items, allowed, mhn) ==
    SortByPrice(SelectSeq(SelectSeq(items, LAMBDA item : CheapAndListed(item, allowed)),
                          LAMBDA item : RightItem(item, mhn)))

\* the price of the first item of the list
FirstPrice(items) == items[1].price

\* Math.min.apply(null, prices) of a non-empty list
MinPrice(items) ==
    CHOOSE p \in {items[i].price : i \in DOMAIN items} :
        \A i \in DOMAIN items : p <= items[i].price

\* getItemOffers without the test of the success flag
getItemOffersOfAnyAnswer(mhn, maxPrice, itemVariants) ==
    IF itemVariants.data = None \/ Len(Get(itemVariants.data)) = 0
      THEN Throw(MiddlewareError("NotFound", "Market", {}))
    ELSE LET preparedVariants == prepareOffers(extractOffers(Get(itemVariants.data)),
                                               allowedPrice(maxPrice), mhn)
         IN  IF Len(preparedVariants) = 0
               THEN Throw(MiddlewareError("TooHighPrices", "Owner", {}))
               ELSE Return(preparedVariants, "none")

\* getItemOffers(mhn, maxPrice), given the answer of api.searchV2ItemByHash
getItemOffers(mhn, maxPrice, itemVariants) ==
    IF ~itemVariants.success
      THEN Throw(MiddlewareError("RequestFailed", "Market", {}))
    ELSE IF itemVariants.data = None \/ Len(Get(itemVariants.data)) = 0
      THEN Throw(MiddlewareError("NotFound", "Market", {}))
    ELSE LET rawVariants == extractOffers(Get(itemVariants.data))
             preparedVariants == prepareOffers(rawVariants, allowedPrice(maxPrice), mhn)
         IN  IF Len(preparedVariants) = 0
               THEN Throw(MiddlewareError("TooHighPrices", "Owner",
                                          {<<"lowestPrice", MinPrice(rawVariants)>>}))
               ELSE Return(preparedVariants, "none")

\* ----------------------------------------------------------- getItemState
\* lines 477-478: the margins of the two phases, in milliseconds
initialMargin == 45 * 1000
extendedMargin == 5 * 60 * 1000

\* EMarketEventType.BuyV2, the event type of a purchase
BuyV2 == "buy_v2"

\* EMarketEventStage: the stages of an operation the layer knows
EMarketEventStage == {1, 2, 5}

\* the source of a MiddlewareError that is built without one
NoSource == "unspecified"

\* lines 433-440: the date getBoughtItems goes on with. With handleTimezone
\* it reads operationDate.getTimezoneOffset(), a TypeError when no date was
\* passed, and shifts the date by the offset
AlignDate(operationDate, cfg, currentTimezone) ==
    IF ~cfg.handleTimezone THEN Return(operationDate, "none")
    ELSE IF operationDate = None THEN Throw(JsError("TypeError"))
    ELSE LET offset == -(0 - currentTimezone)
         IN  Return(Some(Get(operationDate) + offset * 60 * 1000), "none")

\* the range of the first phase whatever the margin asked for
HistoryRangeOfInitialMargin(operationDate, timeMargin, now) ==
    IF operationDate # None
      THEN [start |-> Get(operationDate) - initialMargin, end |-> Get(operationDate) + initialMargin]
      ELSE [start |-> 0, end |-> now]

\* lines 442-452: the range of the history query
HistoryRange(operationDate, timeMargin, now) ==
    IF operationDate # None
      THEN [start |-> Get(operationDate) - timeMargin, end |-> Get(operationDate) + timeMargin]
      ELSE [start |-> 0, end |-> now]

\* getBoughtItems(operationDate, timeMargin) up to the history query: the
\* range it asks for, or the TypeError
getBoughtItems(operationDate, timeMargin, cfg, currentTimezone, now) ==
    LET aligned == AlignDate(operationDate, cfg, currentTimezone)
    IN  IF aligned.kind = "error" THEN aligned
        ELSE Return(HistoryRange(aligned.value, timeMargin, now), "none")

\* api.accountV2GetHistory(start, end): the market answers with the events
\* of the account inside the range, or reports non-success
accountV2GetHistory(range, events, success) ==
    IF success
      THEN [success |-> TRUE,
            data |-> SelectSeq(events, LAMBDA event : range.start <= event.time /\ event.time <= range.end)]
      ELSE [success |-> FALSE, data |-> <<>>]

\* lines 454-469: the then handler of getBoughtItems
getBoughtItemsThen(answer) ==
    IF answer.success
      THEN LET buyEvents == SelectSeq(answer.data, LAMBDA event : event.event = BuyV2)
           IN  IF Len(buyEvents) = 0
                 THEN Throw(MiddlewareError("NotFound", NoSource, {}))
                 ELSE Return(buyEvents, "none")
      ELSE ThrowLogged(MiddlewareError("HistoryFailed", NoSource, {}), "debug")

\* line 479: history.find(event => Number(event.item_id) === marketId)
extractItem(events, marketId) ==
    LET found == SelectSeq(events, LAMBDA event : event.item_id = marketId)
    IN  IF found = <<>> THEN None ELSE Some(Head(found))

\* lines 482-488: getItem after the await of getBoughtItems
getItemThen(answer, marketId) ==
    LET bought == getBoughtItemsThen(answer)
    IN  IF bought.kind = "error" THEN bought
        ELSE LET buyEvent == extractItem(bought.value, marketId)
             IN  IF buyEvent = None
                   THEN Throw(MiddlewareError("NotFound", NoSource, {}))
                   ELSE Return(Get(buyEvent), "none")

\* an error of any kind sends the search to its second phase
WidensOnAnyError(e) == TRUE

\* line 494: the error of the first phase that starts the second one
WidensOn(e) == e.type = "NotFound"

\* line 506: e.marketId = marketId
WithMarketId(e, marketId) == [e EXCEPT !.marketId = Some(marketId)]

\* the stage of the event without the test of the enumeration
StageUnchecked(buyEvent) == Return(buyEvent.stage, "none")

\* lines 510-515: the stage of the event found
StageOf(buyEvent) ==
    IF buyEvent.stage \notin EMarketEventStage
      THEN Throw(MiddlewareError("UnknownStage", NoSource, {}))
      ELSE Return(buyEvent.stage, "none")

\* ------------------------------------------------------------------ state
VARIABLES
    _config,        \* hackExpiredOffers, applyDiscounts (read only)
    _wallet,        \* this._wallet: null or the balance
    _buyDiscount,   \* this._buyDiscount: null or the ratio, in percent
    pc,             \* "idle", "request" (a purchase call is pending), "done"
    offers,         \* the queue of the run, mutated by shift()
    badItemPrice,   \* the flag of the closure
    frames,         \* the pending handlers of the promise chain
    result,         \* how the run ended
    input,          \* the queue as it was handed to buyCheapest
    popped,         \* the candidates shifted off the queue, as listed
    calls,          \* the purchase calls issued
    replies,        \* how the promise of _tryToBuy settled for each call
    _log,           \* the level of the last message _tryToBuy logged
    search,         \* getItemOffers: "idle", or its arguments and its caller
    itemVariants,   \* getItemOffers: the answer of the remote lookup
    variants,       \* getItemOffers: how the call ended
    classifyIn,     \* the classifier alone: the raw message and the price
    classified,     \* the classifier alone: what the catch handler did
    history,        \* the events the market holds for the account
    timezoneOffset, \* Date.prototype.getTimezoneOffset() of the process, in minutes
    itemState,      \* getItemState: "idle", or its arguments and its phase
    requests,       \* the history queries issued: the range of each
    answers,        \* the success flag of each answer to a history query
    stage           \* getItemState: how the call ended

buyVars == << _config, _wallet, _buyDiscount, pc, offers, badItemPrice, frames,
              result, input, popped, calls, replies, _log >>
catalogVars == << search, itemVariants, variants >>
classifyVars == << classifyIn, classified >>
historyVars == << history, timezoneOffset, itemState, requests, answers, stage >>
vars == << buyVars, catalogVars, classifyVars, historyVars >>

Prices == 1..MaxPrice
Balances == 0..MaxPrice

\* the queues a caller may hand to buyCheapest: any list of offers, the
\* empty one included; the class id tells the offers of a queue apart
Queues ==
    UNION { { [i \in 1..n |-> Offer("A", i, ps[i], Some(1))] : ps \in [1..n -> Prices] } : n \in 0..MaxQueue }

NoSearch == [mhn |-> "none", maxPrice |-> None, state |-> "idle", caller |-> "none"]
NoVariants == [success |-> FALSE, data |-> None]
NoClassify == [message |-> "none", uprice |-> 0, state |-> "idle"]

BuyIdle ==
    /\ _wallet = None
    /\ _buyDiscount = None
    /\ pc = "idle"
    /\ offers = <<>>
    /\ badItemPrice = FALSE
    /\ frames = <<>>
    /\ result = NoSettle
    /\ input = <<>>
    /\ popped = <<>>
    /\ calls = <<>>
    /\ replies = <<>>
    /\ _log = "none"

CatalogIdle ==
    /\ search = NoSearch
    /\ itemVariants = NoVariants
    /\ variants = NoSettle

ClassifyIdle ==
    /\ classifyIn = NoClassify
    /\ classified = NoSettle

NoItemState == [marketId |-> 0, operationDate |-> None, state |-> "idle", phase |-> 0]

HistoryIdle ==
    /\ history = <<>>
    /\ timezoneOffset = 0
    /\ itemState = NoItemState
    /\ requests = <<>>
    /\ answers = <<>>
    /\ stage = NoSettle

Init ==
    /\ _config \in [hackExpiredOffers : BOOLEAN, applyDiscounts : BOOLEAN, handleTimezone : {FALSE}]
    /\ BuyIdle
    /\ CatalogIdle
    /\ ClassifyIdle
    /\ HistoryIdle

\* setAccountBalance(botWallet): the balance is set between runs
setAccountBalance(botWallet) ==
    /\ pc = "idle"
    /\ _wallet' = Some(botWallet)
    /\ UNCHANGED << _config, _buyDiscount, pc, offers, badItemPrice, frames,
                    result, input, popped, calls, replies, _log >>
    /\ UNCHANGED << catalogVars, classifyVars, historyVars >>

\* the watcher start() sets when discounts are applied
UpdateDiscount ==
    /\ _config.applyDiscounts
    /\ _buyDiscount' = Some(_getBuyDiscount)
    /\ _buyDiscount' # _buyDiscount
    /\ UNCHANGED << _config, _wallet, pc, offers, badItemPrice, frames,
                    result, input, popped, calls, replies, _log >>
    /\ UNCHANGED << catalogVars, classifyVars, historyVars >>

\* the variables of the run after a step that ended in s
Becomes(s) ==
    /\ pc' = s.pc
    /\ offers' = s.r.offers
    /\ badItemPrice' = s.r.badItemPrice
    /\ frames' = s.r.frames
    /\ popped' = s.r.popped
    /\ calls' = s.r.calls
    /\ result' = s.result

\* buyCheapest(offers, tradeData)
buyCheapest(queue) ==
    /\ pc = "idle"
    /\ input' = queue
    /\ replies' = <<>>
    /\ Becomes(Enter([offers |-> queue, badItemPrice |-> FALSE, frames |-> <<>>,
                      popped |-> <<>>, calls |-> <<>>], _config, _wallet))
    /\ UNCHANGED << _config, _wallet, _buyDiscount, _log >>
    /\ UNCHANGED << catalogVars, classifyVars, historyVars >>

ReplyOf(st) ==
    IF st.kind = "value" THEN (IF st.value = None THEN "null" ELSE "success")
    ELSE IF st.err.class = "MiddlewareError" THEN st.err.type ELSE st.err.class

\* the purchase call returns: _tryToBuy's promise settles and the handlers of
\* buyAttempt run, up to the next purchase call or the end of the run
PurchaseCallReturns(outcome) ==
    /\ pc = "request"
    /\ LET st == _tryToBuy(frames[Len(frames)].instance, outcome, _config, _buyDiscount)
       IN  /\ replies' = Append(replies, ReplyOf(st))
           /\ _log' = st.log
           /\ Becomes(Deliver([offers |-> offers, badItemPrice |-> badItemPrice, frames |-> frames,
                               popped |-> popped, calls |-> calls], st, _config, _wallet))
    /\ UNCHANGED << _config, _wallet, _buyDiscount, input >>
    /\ UNCHANGED << catalogVars, classifyVars, historyVars >>

\* the caller has taken the result of the run: the layer is idle again
RunIsOver ==
    /\ pc = "done"
    /\ pc' = "idle"
    /\ offers' = <<>>
    /\ badItemPrice' = FALSE
    /\ frames' = <<>>
    /\ result' = NoSettle
    /\ input' = <<>>
    /\ popped' = <<>>
    /\ calls' = <<>>
    /\ replies' = <<>>
    /\ _log' = "none"
    /\ UNCHANGED << _config, _wallet, _buyDiscount >>
    /\ UNCHANGED << catalogVars, classifyVars, historyVars >>

Next ==
    \/ \E b \in Balances : setAccountBalance(b)
    \/ UpdateDiscount
    \/ \E q \in Queues : buyCheapest(q)
    \/ \E o \in Outcomes : PurchaseCallReturns(o)
    \/ RunIsOver

\* the buy-attempt loop
Spec == Init /\ [][Next]_vars

\* one run of the buy-attempt loop, from any balance and discount the layer
\* may hold, when every purchase call returns in the end
NextRun ==
    \/ \E b \in Balances : setAccountBalance(b)
    \/ UpdateDiscount
    \/ \E q \in Queues : buyCheapest(q)
    \/ \E o \in Outcomes : PurchaseCallReturns(o)

\* what ReplyOf may be: a result, null, a kind of the taxonomy or the class
\* of a plain error
ReplyKinds == {"success", "null", "Error", "TypeError"} \cup { kind[1] : kind \in Taxonomy }

\* the pending purchase call returns: what PurchaseCallReturns does to the
\* record of the replies. A step of NextRun changes replies in this way
\* exactly when it is a step of PurchaseCallReturns, and both are enabled
\* exactly when a purchase call is pending
PurchaseCallReplies ==
    /\ pc = "request"
    /\ \E reply \in ReplyKinds : replies' = Append(replies, reply)

SpecLive ==
    /\ Init
    /\ [][NextRun]_vars
    /\ WF_replies(PurchaseCallReplies)

\* ------------------------------------------------ the catalogue on its own
\* what the remote lookup may hold for an item: the listing of two item
\* names, with the count in "offers" or in "count"; the entries come two to
\* a class id
OfferCounts ==
    { [offers |-> Some(1), count |-> None], [offers |-> Some(0), count |-> None],
      [offers |-> None, count |-> Some(1)], [offers |-> Some(0), count |-> Some(1)] }
RawItems(i) ==
    { [market_hash_name |-> h, classid |-> (i + 1) \div 2, price |-> p,
       offers |-> c.offers, count |-> c.count] :
        h \in {"A", "B"}, p \in Prices, c \in OfferCounts }
RECURSIVE RawLists(_)
RawLists(n) ==
    IF n = 0 THEN { <<>> }
    ELSE LET shorter == RawLists(n - 1)
         IN  shorter \cup { Append(l, it) : l \in {s \in shorter : Len(s) = n - 1}, it \in RawItems(n) }
Responses ==
    [success : BOOLEAN, data : {None} \cup { Some(l) : l \in RawLists(MaxRaw) }]
Ceilings == {None} \cup { Some(c) : c \in 0..MaxPrice }

InitOffers ==
    /\ _config \in [hackExpiredOffers : {FALSE}, applyDiscounts : {FALSE}, handleTimezone : {FALSE}]
    /\ BuyIdle
    /\ CatalogIdle
    /\ ClassifyIdle
    /\ HistoryIdle

\* getItemOffers(mhn, maxPrice) is called and awaits the remote lookup
CallGetItemOffers(mhn, maxPrice) ==
    /\ search.state = "idle"
    /\ search' = [mhn |-> mhn, maxPrice |-> maxPrice, state |-> "search",
                  caller |-> "getItemOffers"]
    /\ UNCHANGED << itemVariants, variants, buyVars, classifyVars, historyVars >>

\* buyItem(hashName, goodPrice, partnerId, tradeToken) calls getItemOffers
\* and awaits the remote lookup
buyItem(hashName, goodPrice) ==
    /\ search.state = "idle"
    /\ pc = "idle"
    /\ search' = [mhn |-> hashName, maxPrice |-> goodPrice, state |-> "search",
                  caller |-> "buyItem"]
    /\ UNCHANGED << itemVariants, variants, buyVars, classifyVars, historyVars >>

\* the remote lookup answers and getItemOffers runs to its end; under buyItem
\* the then handler hands the list to buyCheapest, which runs up to its first
\* purchase call or to its end, and a rejection skips the handler
SearchReturns(answer) ==
    /\ search.state = "search"
    /\ itemVariants' = answer
    /\ search' = [search EXCEPT !.state = "done"]
    /\ LET list == getItemOffers(search.mhn, search.maxPrice, answer)
       IN  /\ variants' = list
           /\ IF search.caller # "buyItem"
                THEN UNCHANGED buyVars
                ELSE IF list.kind = "value"
                       THEN /\ input' = list.value
                            /\ replies' = <<>>
                            /\ Becomes(Enter([offers |-> list.value, badItemPrice |-> FALSE,
                                              frames |-> <<>>, popped |-> <<>>, calls |-> <<>>],
                                             _config, _wallet))
                            /\ UNCHANGED << _config, _wallet, _buyDiscount, _log >>
                       ELSE /\ pc' = "done"
                            /\ result' = list
                            /\ UNCHANGED << _config, _wallet, _buyDiscount, offers, badItemPrice,
                                            frames, input, popped, calls, replies, _log >>
    /\ UNCHANGED << classifyVars, historyVars >>

NextOffers ==
    \/ \E c \in Ceilings : CallGetItemOffers("A", c)
    \/ \E c \in Ceilings : buyItem("A", c)
    \/ (search.state = "search" /\ \E a \in Responses : SearchReturns(a))

SpecOffers == InitOffers /\ [][NextOffers]_vars

\* ----------------------------------------------- the classifier on its own
InitClassify ==
    /\ _config \in [hackExpiredOffers : {FALSE}, applyDiscounts : {FALSE}, handleTimezone : {FALSE}]
    /\ BuyIdle
    /\ CatalogIdle
    /\ classifyIn \in [message : RawMessages, uprice : Prices, state : {"raised"}]
    /\ classified = NoSettle
    /\ HistoryIdle

\* the catch handler of _tryToBuy receives the raw error
Classify ==
    /\ classifyIn.state = "raised"
    /\ classified' = TryToBuyCatch([hasResponse |-> TRUE, message |-> classifyIn.message],
                                   classifyIn.uprice)
    /\ classifyIn' = [classifyIn EXCEPT !.state = "handled"]
    /\ UNCHANGED << buyVars, catalogVars, historyVars >>

NextClassify == Classify

SpecClassify == InitClassify /\ [][NextClassify]_vars

\* ------------------------------------------------- the history on its own
\* the time of the purchase and the time of the calls, in milliseconds
OperationTime == 400 * 60 * 1000
Now == OperationTime + 24 * 60 * 60 * 1000

\* the process runs in UTC or three hours east of it
Timezones == {0, -180}

\* when an event may have happened: 10 s and 100 s off the time of the
\* purchase, and the same off that time three hours earlier
EventTimes ==
    { OperationTime + 10 * 1000, OperationTime - 100 * 1000,
      OperationTime - 180 * 60 * 1000 + 10 * 1000, OperationTime - 180 * 60 * 1000 - 100 * 1000 }

\* the events of the account: those of item 1, bought or sold, at a known
\* stage or not, and the purchases of item 2
HistoryEvents ==
    { [item_id |-> 1, stage |-> s, event |-> e, time |-> t] :
        s \in {2, 3}, e \in {BuyV2, "sell"}, t \in EventTimes }
    \cup { [item_id |-> 2, stage |-> 1, event |-> BuyV2, time |-> t] : t \in EventTimes }
Histories == UNION { [1..n -> HistoryEvents] : n \in 0..MaxEvents }

InitHistory ==
    /\ _config \in [hackExpiredOffers : {FALSE}, applyDiscounts : {FALSE}, handleTimezone : BOOLEAN]
    /\ BuyIdle
    /\ CatalogIdle
    /\ ClassifyIdle
    /\ history \in Histories
    /\ timezoneOffset \in Timezones
    /\ itemState = NoItemState
    /\ requests = <<>>
    /\ answers = <<>>
    /\ stage = NoSettle

\* the call ends with the settlement st
ItemStateIs(st) ==
    /\ stage' = st
    /\ itemState' = [itemState EXCEPT !.state = "done"]
    /\ UNCHANGED requests

\* getItem(margin) of the call: the history query is issued, or getBoughtItems
\* throws and the catch of line 505 marks the error
getItem(call, margin, phase) ==
    LET range == getBoughtItems(call.operationDate, margin, _config, timezoneOffset, Now)
    IN  IF range.kind = "error"
          THEN /\ stage' = Throw(WithMarketId(range.err, call.marketId))
               /\ itemState' = [call EXCEPT !.state = "done"]
               /\ UNCHANGED requests
          ELSE /\ requests' = Append(requests, range.value)
               /\ itemState' = [call EXCEPT !.state = "query", !.phase = phase]
               /\ UNCHANGED stage

\* getItemState(marketId, operationDate) up to the first history query
getItemState(marketId, operationDate) ==
    /\ itemState.state = "idle"
    /\ getItem([marketId |-> marketId, operationDate |-> operationDate, state |-> "idle", phase |-> 0],
               initialMargin, 1)
    /\ UNCHANGED << history, timezoneOffset, answers, buyVars, catalogVars, classifyVars >>

\* the history query returns and getItemState runs up to its second query
\* or to its end
HistoryReturns(success) ==
    /\ itemState.state = "query"
    /\ answers' = Append(answers, success)
    /\ LET answer == accountV2GetHistory(requests[Len(requests)], history, success)
           buyEvent == getItemThen(answer, itemState.marketId)
       IN  IF buyEvent.kind = "value"
             THEN ItemStateIs(StageOf(buyEvent.value))
             ELSE IF itemState.phase = 1 /\ WidensOn(buyEvent.err)
                    THEN getItem(itemState, extendedMargin, 2)
                    ELSE ItemStateIs(Throw(WithMarketId(buyEvent.err, itemState.marketId)))
    /\ UNCHANGED << history, timezoneOffset, buyVars, catalogVars, classifyVars >>

NextHistory ==
    \/ \E d \in {None, Some(OperationTime)} : getItemState(1, d)
    \/ \E ok \in BOOLEAN : HistoryReturns(ok)

SpecHistory == InitHistory /\ [][NextHistory]_vars

\* ================================================================== claims
FailedWith(type, source) ==
    /\ pc = "done"
    /\ result.kind = "error"
    /\ result.err.class = "MiddlewareError"
    /\ result.err.type = type
    /\ result.err.source = source
Succeeded == pc = "done" /\ result.kind = "value" /\ result.value # None
NeedMoneyContext(price) == {<<"needMoney", price>>}
BadOfferPriceReplies == {i \in DOMAIN replies : replies[i] = "BadOfferPrice"}
IsAscending(q) == \A i \in 1..(Len(q) - 1) : q[i].price <= q[i + 1].price
\* the run stopped at the balance check: a candidate was popped and not called
StoppedAtBalanceCheck == pc = "done" /\ Len(popped) = Len(calls) + 1

\* C1: within one run a BadOfferPrice failure is absorbed at most once. The
\* first one is retried: the run goes on with the remaining queue (the next
\* candidate is called, or the next buyAttempt ends the run at the empty queue
\* or at the balance check). A second one ends the run with a BadOfferPrice
\* error (source Market), and no purchase call follows it.
C1_BadOfferPriceAbsorbedOnce ==
    /\ Cardinality(BadOfferPriceReplies) <= 2
    /\ \A i \in BadOfferPriceReplies :
          IF \E j \in BadOfferPriceReplies : j < i
            THEN /\ i = Len(replies)
                 /\ Len(calls) = i
                 /\ Len(popped) = i
                 /\ FailedWith("BadOfferPrice", "Market")
            ELSE /\ badItemPrice
                 /\ i = Len(replies) =>
                       \/ /\ pc = "request"
                          /\ Len(calls) = i + 1
                          /\ calls[i + 1].classId = input[i + 1].classId
                       \/ /\ FailedWith("AttemptsFailed", "Market")
                          /\ Len(input) = i
                       \/ /\ FailedWith("NeedMoney", "Owner")
                          /\ StoppedAtBalanceCheck

\* C1 witness: a silent retry, an absorbed BadOfferPrice and a second
\* BadOfferPrice that ended the run
C1_Witness ==
    /\ pc = "done"
    /\ replies = << "null", "BadOfferPrice", "BadOfferPrice" >>
    /\ FailedWith("BadOfferPrice", "Market")

\* C2: a run in which no purchase call succeeded and no fatal error was
\* propagated (every reply was a silent retry or the one absorbed
\* BadOfferPrice, and no candidate stopped at the balance check) ends with
\* AttemptsFailed (source Market), with the queue empty and every offer of
\* the input called; a run that ended has a result.
C2_ExhaustedQueueFails ==
    /\ pc = "done" => result.kind \in {"value", "error"}
    /\ ( /\ pc = "done"
         /\ \A i \in DOMAIN replies : replies[i] \in {"null", "BadOfferPrice"}
         /\ Cardinality(BadOfferPriceReplies) <= 1
         /\ Len(popped) = Len(calls) )
       => /\ FailedWith("AttemptsFailed", "Market")
          /\ result.err.context = {}
          /\ offers = <<>>
          /\ Len(calls) = Len(input)

\* C2 witness: the absorbed BadOfferPrice was the reply for the last candidate
C2_Witness ==
    /\ replies = << "null", "BadOfferPrice" >>
    /\ Len(input) = 2
    /\ FailedWith("AttemptsFailed", "Market")

\* the case of C3: a run over an ascending queue whose cheapest candidate is
\* listed above the known balance
C3_Case ==
    /\ pc # "idle"
    /\ _wallet # None
    /\ input # <<>>
    /\ IsAscending(input)
    /\ input[1].price > Get(_wallet)

\* C3 as stated: the run fails NeedMoney (source Owner) with needMoney equal
\* to the candidate's listed price, no purchase call is issued and the next
\* candidate is not tried.
C3_NeedMoneyIsListedPrice ==
    C3_Case =>
        /\ FailedWith("NeedMoney", "Owner")
        /\ result.err.context = NeedMoneyContext(input[1].price)
        /\ calls = <<>>
        /\ popped = << input[1] >>

\* C3 amended: needMoney is the attempt price: max(listed price, next listed
\* price - 1) when the adjustment is enabled and another candidate remains,
\* the listed price otherwise.
C3_NeedMoneyIsAttemptPrice ==
    C3_Case =>
        /\ FailedWith("NeedMoney", "Owner")
        /\ result.err.context =
              NeedMoneyContext(IF _config.hackExpiredOffers /\ Len(input) > 1
                                 THEN Max(input[1].price, input[2].price - 1)
                                 ELSE input[1].price)
        /\ calls = <<>>
        /\ popped = << input[1] >>
        /\ offers = Tail(input)

\* C3 witness: the adjustment raised the price that the error reports
C3_Witness ==
    /\ C3_Case
    /\ _config.hackExpiredOffers
    /\ Len(input) = 3
    /\ input[2].price > input[1].price + 1
    /\ FailedWith("NeedMoney", "Owner")

\* C4: while the balance has never been set, no attempt stops at the balance
\* check: every popped candidate is called, and a run that fails NeedMoney got
\* it from the provider.
C4_UnsetBalanceIsUnbounded ==
    (_wallet = None /\ pc # "idle") =>
        /\ Len(popped) = Len(calls)
        /\ FailedWith("NeedMoney", "Owner") =>
              replies # <<>> /\ replies[Len(replies)] = "NeedMoney"

\* C4 witness: with no balance set, the dearest price is submitted in a third call
C4_Witness ==
    /\ _wallet = None
    /\ pc = "request"
    /\ Len(calls) = 3
    /\ calls[3].uprice = MaxPrice

\* C5: the k-th purchase call submits max(listed price, next listed price - 1)
\* when the adjustment is enabled and a candidate remains after the pop, and
\* the listed price otherwise.
C5_SubmittedPrice ==
    \A k \in DOMAIN calls :
        /\ calls[k].classId = input[k].classId
        /\ calls[k].listed = input[k].price
        /\ calls[k].uprice =
              IF _config.hackExpiredOffers /\ k < Len(input)
                THEN Max(input[k].price, input[k + 1].price - 1)
                ELSE input[k].price
        /\ (pc = "request" /\ k = Len(calls)) => frames[Len(frames)].instance.price = calls[k].uprice

\* C5 witness: a raised price in the first call and the last candidate called
C5_Witness ==
    /\ _config.hackExpiredOffers
    /\ Len(input) >= 2
    /\ Len(calls) = Len(input)
    /\ calls[1].uprice > calls[1].listed
    /\ calls[Len(calls)].uprice = calls[Len(calls)].listed

\* C6 as stated: every run ends with a purchase result or with a DomainError
\* of the taxonomy (AttemptsFailed included).
C6_RunEndsInsideTaxonomy ==
    pc = "done" =>
        \/ Succeeded
        \/ /\ result.kind = "error"
           /\ result.err.class = "MiddlewareError"
           /\ << result.err.type, result.err.source >> \in Taxonomy

\* the names the switch of _tryToBuy has a case for
HandledNames ==
    { "BadOfferPrice", "BuyOfferExpired", "SomebodyBuying", "RequestErrorNoList",
      "FailedToFindItem", "SteamOrBotProblems", "BotIsBanned", "ServerError7",
      "NeedToTake", "NeedMoney", "InvalidTradeLink", "SteamInventoryPrivate",
      "OfflineTradeProblem", "VacGameBan", "BuyCanceledTrades", "CanceledTrades" }
UnhandledMessages ==
    RawMessages \ { ValueOfName[n] : n \in HandledNames \cap EMarketMessageNames }

\* the loop went on after a reply: the candidate is gone and the next
\* buyAttempt ran on the remaining queue
LoopWentOn ==
    /\ badItemPrice' = badItemPrice
    /\ \/ /\ offers = <<>>
          /\ pc' = "done"
          /\ result' = Throw(MiddlewareError("AttemptsFailed", "Market", {}))
       \/ /\ offers # <<>>
          /\ offers' = Tail(offers)
          /\ popped' = Append(popped, Head(offers))
          /\ \/ /\ pc' = "request"
                /\ Len(calls') = Len(calls) + 1
                /\ calls'[Len(calls')].classId = Head(offers).classId
             \/ /\ pc' = "done"
                /\ calls' = calls
                /\ result'.kind = "error"
                /\ result'.err.type = "NeedMoney"
                /\ _wallet # None

\* C7: a purchase-call failure whose message the classifier does not handle
\* (a message outside the vocabulary, or a vocabulary message with no case)
\* is a silent retry: the reply is null and the loop goes on with the
\* remaining queue. (A step is such a silent retry, or it is not the return
\* of a purchase call with an unhandled message.)
C7_UnhandledMessageIsRetried ==
    [][ \A m \in UnhandledMessages :
            \/ replies' = Append(replies, "null") /\ LoopWentOn
            \/ ~PurchaseCallReturns([tag |-> "error", success |-> FALSE, message |-> m]) ]_vars

\* C7 witness: the default case of the switch was taken and the next
\* candidate is being called
C7_Witness ==
    /\ _log = "debug"
    /\ pc = "request"
    /\ replies # <<>>
    /\ replies[Len(replies)] = "null"
    /\ Len(calls) = Len(replies) + 1

\* the table of C8, by the name of the message
FatalTable ==
    { <<"BadOfferPrice", "BadOfferPrice", "Market">>, <<"NeedToTake", "NeedToTake", "Owner">>,
      <<"NeedMoney", "NeedMoney", "Owner">>, <<"InvalidTradeLink", "InvalidToken", "User">>,
      <<"SteamInventoryPrivate", "InventoryClosed", "User">>,
      <<"OfflineTradeProblem", "UnableOfflineTrade", "User">>,
      <<"VacGameBan", "VacGameBan", "User">>, <<"BuyCanceledTrades", "BotCanceledTrades", "User">>,
      <<"CanceledTrades", "CanceledTrades", "User">> }
SilentNames ==
    { "BuyOfferExpired", "SomebodyBuying", "RequestErrorNoList", "FailedToFindItem",
      "SteamOrBotProblems", "BotIsBanned", "ServerError7", "RequestErrorItemListFail" }
HasName(message, name) ==
    name \in EMarketMessageNames /\ ValueOfName[name] = message

\* C8: the classifier maps every raw message to the classification of the
\* table: the fatal kinds with their sources, the silent retries (null), and
\* the message shared by RequestErrorItemListFail and RequestErrorNoList is a
\* silent retry; every message is classified.
C8_ClassifierTable ==
    classifyIn.state = "handled" =>
        /\ classified.kind \in {"value", "error"}
        /\ \A row \in FatalTable :
              HasName(classifyIn.message, row[1]) =>
                  /\ classified.kind = "error"
                  /\ classified.err.class = "MiddlewareError"
                  /\ classified.err.type = row[2]
                  /\ classified.err.source = row[3]
        /\ \A n \in SilentNames :
              HasName(classifyIn.message, n) =>
                  classified.kind = "value" /\ classified.value = None

\* C8 witness: the message that two names share was classified
C8_Witness ==
    /\ classifyIn.state = "handled"
    /\ HasName(classifyIn.message, "RequestErrorItemListFail")
    /\ HasName(classifyIn.message, "RequestErrorNoList")
    /\ classified.kind = "value"

\* the fatal kinds other than BadOfferPrice, with their sources
FatalSource ==
    [k \in { "NeedToTake", "NeedMoney", "InvalidToken", "InventoryClosed", "UnableOfflineTrade",
             "VacGameBan", "BotCanceledTrades", "CanceledTrades" } |->
        IF k \in {"NeedToTake", "NeedMoney"} THEN "Owner" ELSE "User"]

\* C9: a purchase call that fails with a fatal kind other than BadOfferPrice
\* ends the run with an error of that kind and source, whatever was retried
\* before, and no further candidate is popped or called.
C9_FatalKindPropagates ==
    \A i \in DOMAIN replies :
        replies[i] \in DOMAIN FatalSource =>
            /\ i = Len(replies)
            /\ FailedWith(replies[i], FatalSource[replies[i]])
            /\ Len(calls) = i
            /\ Len(popped) = i
            /\ offers = SubSeq(input, i + 1, Len(input))

\* C9 witness: a fatal kind after an absorbed BadOfferPrice, with an offer
\* left in the queue
C9_Witness ==
    /\ replies = << "BadOfferPrice", "CanceledTrades" >>
    /\ FailedWith("CanceledTrades", "User")
    /\ offers # <<>>

\* C10 as stated: every offer of the queue getItemOffers returns is priced
\* at most the ceiling supplied (0 included), has a listing count above 0 and
\* has the requested item key.
C10_QueueWithinCeiling ==
    (search.state = "done" /\ variants.kind = "value") =>
        \A i \in DOMAIN variants.value :
            /\ search.maxPrice # None => variants.value[i].price <= Get(search.maxPrice)
            /\ variants.value[i].offers # None
            /\ Get(variants.value[i].offers) > 0
            /\ variants.value[i].hashName = search.mhn

\* the number of times an offer occurs in a list
Count(list, offer) == Cardinality({ i \in DOMAIN list : list[i] = offer })

\* the filter of the catalogue, with the ceiling the call applies (C10 is
\* about the ceiling 0)
PassesFilter(offer) ==
    /\ (search.maxPrice # None /\ Get(search.maxPrice) # 0) => offer.price <= Get(search.maxPrice)
    /\ offer.offers # None
    /\ Get(offer.offers) > 0
    /\ offer.hashName = search.mhn

\* C11: the queue getItemOffers returns is ascending by price, whatever the
\* raw list (equal prices and repeated class ids included), and holds every
\* raw offer that passes the filter exactly as often as the raw list does,
\* and no other offer.
C11_QueueIsSortedFilteredRaw ==
    (search.state = "done" /\ variants.kind = "value") =>
        LET rawVariants == extractOffers(Get(itemVariants.data))
            all == { rawVariants[i] : i \in DOMAIN rawVariants }
                     \cup { variants.value[i] : i \in DOMAIN variants.value }
        IN  /\ IsAscending(variants.value)
            /\ \A o \in all :
                  Count(variants.value, o) = IF PassesFilter(o) THEN Count(rawVariants, o) ELSE 0

\* C11 witness: two raw offers of one class id in descending order of price
\* both pass the filter and come out in ascending order
C11_Witness ==
    /\ search.state = "done"
    /\ variants.kind = "value"
    /\ Len(variants.value) = 2
    /\ Len(Get(itemVariants.data)) = 2
    /\ Get(itemVariants.data)[1].classid = Get(itemVariants.data)[2].classid
    /\ Get(itemVariants.data)[1].price > Get(itemVariants.data)[2].price
    /\ variants.value[1].price < variants.value[2].price

\* C12: when the lookup answers a non-empty raw list and no raw offer
\* passes the filter, getItemOffers fails with TooHighPrices (source Owner)
\* whose context lowestPrice is the least price over all raw offers, those of
\* another key or without listings included; it never returns an empty queue.
C12_NothingLeftIsTooHighPrices ==
    search.state = "done" =>
        /\ (variants.kind = "value" => variants.value # <<>>)
        /\ (itemVariants.success /\ itemVariants.data # None /\ Get(itemVariants.data) # <<>>) =>
              LET rawVariants == extractOffers(Get(itemVariants.data))
              IN  (\A i \in DOMAIN rawVariants : ~PassesFilter(rawVariants[i])) =>
                      /\ variants.kind = "error"
                      /\ variants.err.class = "MiddlewareError"
                      /\ variants.err.type = "TooHighPrices"
                      /\ variants.err.source = "Owner"
                      /\ \E i \in DOMAIN rawVariants :
                            /\ variants.err.context = {<<"lowestPrice", rawVariants[i].price>>}
                            /\ \A j \in DOMAIN rawVariants : rawVariants[i].price <= rawVariants[j].price

\* C12 witness: TooHighPrices whose lowestPrice comes from a second raw
\* offer, of another key, cheaper than the first
C12_Witness ==
    /\ search.state = "done"
    /\ variants.kind = "error"
    /\ variants.err.type = "TooHighPrices"
    /\ Len(Get(itemVariants.data)) = 2
    /\ Get(itemVariants.data)[2].market_hash_name # search.mhn
    /\ Get(itemVariants.data)[2].price < Get(itemVariants.data)[1].price
    /\ variants.err.context = {<<"lowestPrice", Get(itemVariants.data)[2].price>>}

\* C13: getItemOffers fails with RequestFailed (source Market) whenever the
\* lookup reports non-success, whatever data came with it, and with NotFound
\* (source Market) when it reports success with missing or empty data; no
\* queue is returned, and buyItem then issues no purchase call and fails
\* with the same error.
C13_FailedLookupBuysNothing ==
    LET failure == IF ~itemVariants.success THEN "RequestFailed" ELSE "NotFound"
    IN  (/\ search.state = "done"
         /\ (~itemVariants.success \/ itemVariants.data = None \/ Get(itemVariants.data) = <<>>)) =>
            /\ variants = Throw(MiddlewareError(failure, "Market", {}))
            /\ search.caller = "buyItem" =>
                  /\ FailedWith(failure, "Market")
                  /\ calls = <<>>
                  /\ frames = <<>>

\* C13 witness: buyItem fails with RequestFailed on a non-success answer that
\* carries an offer the filter would pass
C13_Witness ==
    /\ search.state = "done"
    /\ search.caller = "buyItem"
    /\ ~itemVariants.success
    /\ itemVariants.data # None
    /\ \E i \in DOMAIN Get(itemVariants.data) : PassesFilter(extractOffers(Get(itemVariants.data))[i])
    /\ FailedWith("RequestFailed", "Market")
    /\ calls = <<>>

\* the purchases of the item asked for that lie within margin of center
ItemBuys(center, margin) ==
    { i \in DOMAIN history :
        /\ history[i].item_id = itemState.marketId
        /\ history[i].event = BuyV2
        /\ center - margin <= history[i].time
        /\ history[i].time <= center + margin }
First(indices) == CHOOSE i \in indices : \A j \in indices : i <= j
RangeAround(center, margin) == [start |-> center - margin, end |-> center + margin]
HistoryFailedOutcome == stage.kind = "error" /\ stage.err.type = "HistoryFailed"
NotFoundOutcome ==
    /\ stage.kind = "error"
    /\ stage.err.class = "MiddlewareError"
    /\ stage.err.type = "NotFound"
    /\ stage.err.marketId = Some(itemState.marketId)

\* the two phases of a call with a timestamp whose history queries all
\* succeed, the windows being centred on center: a purchase of the item
\* outside the 45 s window and inside the 5 min window is found by a second
\* query with the 5 min margin and its stage returned; with no purchase of
\* the item in either window the call fails with NotFound carrying the item
\* id, after two queries
TwoPhases(center) ==
    LET near == ItemBuys(center, initialMargin)
        wide == ItemBuys(center, extendedMargin)
    IN  /\ (near = {} /\ wide # {}) =>
              /\ requests = << RangeAround(center, initialMargin), RangeAround(center, extendedMargin) >>
              /\ history[First(wide)].stage \in EMarketEventStage =>
                      stage = Return(history[First(wide)].stage, "none")
        /\ wide = {} =>
              /\ Len(requests) = 2
              /\ NotFoundOutcome

\* C14 as stated: the windows are centred on the timestamp passed.
C14_WindowsAroundTimestamp ==
    (itemState.state = "done" /\ itemState.operationDate # None /\ ~HistoryFailedOutcome) =>
        TwoPhases(Get(itemState.operationDate))

\* the timestamp after the alignment of getBoughtItems
AlignedTimestamp ==
    Get(itemState.operationDate) + (IF _config.handleTimezone THEN timezoneOffset * 60 * 1000 ELSE 0)

\* C14 (amended): the windows are centred on the timestamp passed, shifted
\* by the timezone offset of the process when timezone handling is enabled.
\* A purchase of the item outside the 45 s window and inside the 5 min window
\* is missed by the first query and found by a second one with the 5 min
\* margin, and the call returns its stage; with no purchase of the item in
\* either window (a window without any purchase included) the call fails
\* with NotFound carrying the item id, after exactly two history queries.
C14_WindowsAroundAlignedTimestamp ==
    (itemState.state = "done" /\ itemState.operationDate # None /\ ~HistoryFailedOutcome) =>
        TwoPhases(AlignedTimestamp)

\* C14 witness: with timezone handling and an offset of three hours the
\* second query finds the purchase of the item and its stage is returned
C14_Witness ==
    /\ itemState.state = "done"
    /\ itemState.operationDate # None
    /\ _config.handleTimezone
    /\ timezoneOffset # 0
    /\ Len(requests) = 2
    /\ ItemBuys(AlignedTimestamp, initialMargin) = {}
    /\ stage.kind = "value"

\* the purchases of the item asked for that the last history query covers
ItemBuysOfLastQuery ==
    LET range == requests[Len(requests)]
    IN  { i \in DOMAIN history :
            /\ history[i].item_id = itemState.marketId
            /\ history[i].event = BuyV2
            /\ range.start <= history[i].time
            /\ history[i].time <= range.end }

\* C15: when a phase finds the purchase of the item, a stage outside the
\* known enumeration makes the call fail with UnknownStage and no stage is
\* returned, and a stage of the enumeration is returned as it is.
C15_StageIsValidated ==
    (/\ itemState.state = "done"
     /\ requests # <<>>
     /\ ~HistoryFailedOutcome
     /\ ItemBuysOfLastQuery # {}) =>
        LET buyEvent == history[First(ItemBuysOfLastQuery)]
        IN  IF buyEvent.stage \in EMarketEventStage
              THEN stage.kind = "value" /\ stage.value = buyEvent.stage
              ELSE /\ stage.kind = "error"
                   /\ stage.err.class = "MiddlewareError"
                   /\ stage.err.type = "UnknownStage"
                   /\ stage.value = None

\* C15 witness: the second phase finds the purchase at a stage that is not
\* of the enumeration
C15_Witness ==
    /\ itemState.state = "done"
    /\ Len(requests) = 2
    /\ ~HistoryFailedOutcome
    /\ ItemBuysOfLastQuery # {}
    /\ history[First(ItemBuysOfLastQuery)].stage \notin EMarketEventStage
    /\ stage.kind = "error"
    /\ stage.err.type = "UnknownStage"

\* C16: in a run over a queue ascending by price the k-th purchase call is
\* for the k-th offer of the queue, none skipped, repeated or reordered, and
\* the listed prices and the submitted prices of successive calls do not
\* decrease.
C16_CallsFollowQueueOrder ==
    IsAscending(input) =>
        /\ Len(calls) <= Len(input)
        /\ \A k \in DOMAIN calls :
              /\ calls[k].classId = input[k].classId
              /\ calls[k].listed = input[k].price
        /\ \A k \in 1..(Len(calls) - 1) :
              /\ calls[k].listed <= calls[k + 1].listed
              /\ calls[k].uprice <= calls[k + 1].uprice

\* C16 witness: three calls over an ascending queue of three prices, with
\* the adjustment enabled
C16_Witness ==
    /\ _config.hackExpiredOffers
    /\ IsAscending(input)
    /\ Len(calls) = 3
    /\ calls[1].listed < calls[2].listed
    /\ calls[2].listed < calls[3].listed

\* C17 as stated: the result of a successful purchase has the listed price
\* of the candidate bought as its offerPrice and the discounted listed price
\* as its price, at every position of the queue, with the adjustment enabled
\* or disabled.
C17_ResultCarriesListedPrice ==
    Succeeded =>
        /\ Get(result.value).offerPrice = Some(calls[Len(calls)].listed)
        /\ Get(result.value).price = _applyDiscount(calls[Len(calls)].listed, _config, _buyDiscount)

\* C18: with the adjustment enabled and a queue ascending by price, the
\* price submitted for a candidate is at least its listed price and at most
\* the listed price of the next candidate in the queue, and it is above its
\* listed price only when the next listed price is at least 2 higher.
C18_SubmittedPriceBounds ==
    (_config.hackExpiredOffers /\ IsAscending(input)) =>
        \A k \in DOMAIN calls :
            /\ calls[k].uprice >= calls[k].listed
            /\ k < Len(input) => calls[k].uprice <= input[k + 1].price
            /\ calls[k].uprice > calls[k].listed =>
                  (k < Len(input) /\ input[k + 1].price >= calls[k].listed + 2)

\* C18 witness: a candidate listed at 1 before one listed at 3 is bid at 2
C18_Witness ==
    /\ _config.hackExpiredOffers
    /\ IsAscending(input)
    /\ Len(calls) >= 1
    /\ calls[1].listed = 1
    /\ calls[1].uprice = 2
    /\ input[2].price = 3

\* the purchases of the item asked for that the first history query covers
ItemBuysOfFirstQuery ==
    { i \in DOMAIN history :
        /\ history[i].item_id = itemState.marketId
        /\ history[i].event = BuyV2
        /\ requests[1].start <= history[i].time
        /\ history[i].time <= requests[1].end }

\* C19: a call issues at most two history queries, and the second one only
\* after the first was answered with success and did not hold the purchase
\* of the item. A first query that fails ends the call with HistoryFailed
\* and no second query; a first query that finds the item ends it with no
\* second query; a second query that fails ends it with HistoryFailed.
C19_WidensOnlyAfterNotFound ==
    /\ Len(requests) <= 2
    /\ Len(answers) <= Len(requests)
    /\ Len(requests) = 2 => (answers[1] /\ ItemBuysOfFirstQuery = {})
    /\ (Len(answers) >= 1 /\ ~answers[1]) =>
          /\ itemState.state = "done"
          /\ Len(requests) = 1
          /\ HistoryFailedOutcome
    /\ (Len(answers) >= 1 /\ answers[1] /\ ItemBuysOfFirstQuery # {}) =>
          /\ itemState.state = "done"
          /\ Len(requests) = 1
    /\ (Len(answers) = 2 /\ ~answers[2]) =>
          /\ itemState.state = "done"
          /\ HistoryFailedOutcome
          /\ stage.err.class = "MiddlewareError"

\* C19 witness: the first phase ends in NotFound and the second query fails
C19_Witness ==
    /\ itemState.state = "done"
    /\ answers = << TRUE, FALSE >>
    /\ HistoryFailedOutcome

\* the purchases of the item asked for anywhere in the history
ItemBuysAnywhere ==
    { i \in DOMAIN history : history[i].item_id = itemState.marketId /\ history[i].event = BuyV2 }

\* C20 as stated: without a timestamp, with timezone handling enabled or
\* disabled, every history query of the call (none of them failing) covers
\* the whole history, from the epoch to now, and the call returns the stage
\* of the item's purchase if there is one anywhere, and fails with NotFound
\* otherwise.
C20_NoTimestampSearchesWholeHistory ==
    (itemState.state = "done" /\ itemState.operationDate = None /\ ~HistoryFailedOutcome) =>
        /\ requests # <<>>
        /\ \A k \in DOMAIN requests : requests[k] = [start |-> 0, end |-> Now]
        /\ IF ItemBuysAnywhere # {}
             THEN history[First(ItemBuysAnywhere)].stage \in EMarketEventStage =>
                      stage = Return(history[First(ItemBuysAnywhere)].stage, "none")
             ELSE NotFoundOutcome

\* the bookkeeping of a run: the candidates taken and the queue left make up
\* the queue handed in, a candidate is taken before its purchase call, at
\* most one call is issued per offer, and a call answered with success is the
\* last one
RunIsBounded ==
    /\ popped \o offers = input
    /\ Len(calls) <= Len(popped)
    /\ Len(popped) <= Len(calls) + 1
    /\ Len(calls) <= Len(input)
    /\ Len(replies) = (IF pc = "request" THEN Len(calls) - 1 ELSE Len(calls))
    /\ \A i \in DOMAIN replies :
          replies[i] = "success" => (i = Len(calls) /\ Succeeded)

\* C21: a run over a queue of N offers ends when every purchase call
\* returns: each iteration takes one offer off the queue before its purchase
\* call and the queue never grows, so at most N calls are issued, one per
\* offer, and none after a call answered with success.
C21_RunTerminates ==
    /\ []RunIsBounded
    /\ (pc = "request") ~> (pc = "done")

\* C21 witness: a run over three offers ends with the third call answered
\* with success after two offers were passed over
C21_Witness ==
    /\ Len(input) = 3
    /\ replies = << "null", "null", "success" >>
    /\ Len(calls) = 3
    /\ offers = <<>>
    /\ Succeeded

=============================================================================
